---------------------------- MODULE Spec2Model ----------------------------
(***************************************************************************)
(* The spots router of Rgb-bnb (backend/routes/api/spots.js) over its      *)
(* store: the Spot, SpotImage, Review and Booking tables.                  *)
(*                                                                         *)
(* A handler runs from one store call (an await) to the next without       *)
(* interruption, so each action below is one store call together with the  *)
(* synchronous code that follows it up to the next await or the response.  *)
(* A value that may be absent (undefined, null, NaN) is the empty tuple    *)
(* <<>>; a present value v is <<v>>.                                       *)
(***************************************************************************)
EXTENDS Integers, Sequences, FiniteSets, TLC

VARIABLES
    spots,        \* rows of the Spots table
    spotImages,   \* rows of the SpotImages table
    reviews,      \* rows of the Reviews table
    bookings,     \* rows of the Bookings table
    nextSpotId,   \* autoincrement key of Spots
    nextImageId,  \* autoincrement key of SpotImages
    nextBookingId,\* autoincrement key of Bookings
    fkEnforced,   \* whether the store rejects writes that break a child's spotId reference
    inflight,     \* handlers suspended at a store call, by slot
    resp          \* what the latest step answered (NoResp when it answered nothing)

vars == <<spots, spotImages, reviews, bookings, nextSpotId, nextImageId,
          nextBookingId, fkEnforced, inflight, resp>>

store == <<spots, spotImages, reviews, bookings, nextSpotId, nextImageId, nextBookingId>>

-----------------------------------------------------------------------------
(* Bounds of the model *)

MaxSpotId == 2
MaxImageId == 1
MaxInflight == 2

Users == {1, 2}
Slots == 1..MaxInflight

(* Program constants *)

LatMin == -90
LatMax == 90
LngMin == -180
LngMax == 180
NameMax == 50
PriceFloor == 0
DefaultPage == 1
DefaultSize == 20
SizeMin == 1
SizeMax == 20
PageMin == 1

-----------------------------------------------------------------------------
(* JavaScript values *)

Undefined == <<>>
Some(v) == <<v>>
Val(o) == o[1]

\* !x for a string that may be undefined: undefined and "" are falsy
FalsyStr(o) == o = Undefined \/ o = Some("")

\* a name of n characters
NameOfLen(n) == [i \in 1..n |-> "a"]

\* !name for a name that may be undefined: undefined and the empty string are falsy
FalsyName(o) == o = Undefined \/ Val(o) = <<>>

-----------------------------------------------------------------------------
(* Request bodies of POST /spots and PUT /spots/:spotId *)

ValidBodyA ==
    [address |-> Some("1 A St"), city |-> Some("Ayr"), state |-> Some("AS"),
     country |-> Some("AC"), lat |-> Some(LatMin), lng |-> Some(LngMax),
     name |-> Some(NameOfLen(1)), description |-> Some("a"), price |-> Some(1)]

ValidBodyB ==
    [address |-> Some("2 B St"), city |-> Some("Bye"), state |-> Some("BS"),
     country |-> Some("BC"), lat |-> Some(LatMax), lng |-> Some(LngMin),
     name |-> Some(NameOfLen(NameMax)), description |-> Some("b"), price |-> Some(2)]

ValidBodies == {ValidBodyA, ValidBodyB}

\* ValidBodyA with one field, or every field, replaced by a value the handlers refuse
InvalidBodies ==
    {[ValidBodyA EXCEPT !.address = Undefined], [ValidBodyA EXCEPT !.city = Some("")],
     [ValidBodyA EXCEPT !.state = Undefined], [ValidBodyA EXCEPT !.country = Some("")],
     [ValidBodyA EXCEPT !.description = Undefined]}
    \cup {[ValidBodyA EXCEPT !.lat = v] : v \in {Some(LatMin - 1), Some(LatMax + 1)}}
    \cup {[ValidBodyA EXCEPT !.lng = v] : v \in {Some(LngMin - 1), Some(LngMax + 1)}}
    \cup {[ValidBodyA EXCEPT !.name = v] : v \in {Undefined, Some(NameOfLen(NameMax + 1))}}
    \cup {[ValidBodyA EXCEPT !.price = v] : v \in {Some(PriceFloor), Some(PriceFloor - 1)}}
    \cup {[address |-> Undefined, city |-> Undefined, state |-> Undefined,
           country |-> Undefined, lat |-> Undefined, lng |-> Undefined,
           name |-> Some(NameOfLen(0)), description |-> Some(""), price |-> Undefined]}

Bodies == ValidBodies \cup InvalidBodies

\* the errors object with a price check that lets a price of 0 through
ValidateSpotPriceBelowFloor(b) ==
    (IF FalsyStr(b.address) THEN {"address"} ELSE {})
    \cup (IF FalsyStr(b.city) THEN {"city"} ELSE {})
    \cup (IF FalsyStr(b.state) THEN {"state"} ELSE {})
    \cup (IF FalsyStr(b.country) THEN {"country"} ELSE {})
    \cup (IF b.lat = Undefined \/ Val(b.lat) < LatMin \/ Val(b.lat) > LatMax
          THEN {"lat"} ELSE {})
    \cup (IF b.lng = Undefined \/ Val(b.lng) < LngMin \/ Val(b.lng) > LngMax
          THEN {"lng"} ELSE {})
    \cup (IF FalsyName(b.name) \/ Len(Val(b.name)) > NameMax THEN {"name"} ELSE {})
    \cup (IF FalsyStr(b.description) THEN {"description"} ELSE {})
    \cup (IF b.price = Undefined \/ Val(b.price) < PriceFloor THEN {"price"} ELSE {})

\* the errors object both handlers build, as the set of its keys
ValidateSpot(b) ==
    (IF FalsyStr(b.address) THEN {"address"} ELSE {})
    \cup (IF FalsyStr(b.city) THEN {"city"} ELSE {})
    \cup (IF FalsyStr(b.state) THEN {"state"} ELSE {})
    \cup (IF FalsyStr(b.country) THEN {"country"} ELSE {})
    \cup (IF b.lat = Undefined \/ Val(b.lat) < LatMin \/ Val(b.lat) > LatMax
          THEN {"lat"} ELSE {})
    \cup (IF b.lng = Undefined \/ Val(b.lng) < LngMin \/ Val(b.lng) > LngMax
          THEN {"lng"} ELSE {})
    \cup (IF FalsyName(b.name) \/ Len(Val(b.name)) > NameMax THEN {"name"} ELSE {})
    \cup (IF FalsyStr(b.description) THEN {"description"} ELSE {})
    \cup (IF b.price = Undefined \/ Val(b.price) <= PriceFloor THEN {"price"} ELSE {})

-----------------------------------------------------------------------------
(* Rows *)

SpotRow(id, owner, b) ==
    [id |-> id, ownerId |-> owner,
     address |-> Val(b.address), city |-> Val(b.city), state |-> Val(b.state),
     country |-> Val(b.country), lat |-> Val(b.lat), lng |-> Val(b.lng),
     name |-> Val(b.name), description |-> Val(b.description), price |-> Val(b.price)]

\* spot.update({...}): the nine body fields replaced, id and ownerId kept
UpdatedRow(s, b) == SpotRow(s.id, s.ownerId, b)

ImageRow(id, sid, img) == [id |-> id, spotId |-> sid, url |-> img.url, preview |-> img.preview]

\* Spot.findByPk(spotId): the set holding the row, empty when there is none
FindByPk(sid) == {s \in spots : s.id = sid}

\* Model.destroy({ where: { spotId } })
DestroyWhere(rows, sid) == {x \in rows : x.spotId # sid}

ChildrenOf(sid) ==
    {x \in spotImages : x.spotId = sid}
    \cup {x \in reviews : x.spotId = sid}
    \cup {x \in bookings : x.spotId = sid}


-----------------------------------------------------------------------------
(* Responses and suspended handlers *)

\* What a step answered: the status and the errors object's keys, with the
\* request it answers (kind, user, spotId, body). removed is history, read by
\* no handler: the number of child rows the answering DELETE destroyed.
Response(kind, status, u, sid, body, errors, removed) ==
    [kind |-> kind, status |-> status, user |-> u, spotId |-> sid, body |-> body,
     errors |-> errors, removed |-> removed]

NoResp == Response("none", 0, 0, 0, Undefined, {}, 0)

\* a handler between two store calls: pc names the store call it makes next
Pending(kind, u, sid, body, pc, removed) ==
    [kind |-> kind, user |-> u, spotId |-> sid, body |-> body, pc |-> pc,
     removed |-> removed]

Idle == Pending("idle", 0, 0, Undefined, "idle", 0)

FreeSlots == {k \in Slots : inflight[k] = Idle}

\* the handler takes the lowest free slot; at most cap handlers are suspended at once
Suspend(p, cap) ==
    /\ Cardinality(Slots \ FreeSlots) < cap
    /\ inflight' = [inflight EXCEPT ![CHOOSE k \in FreeSlots : \A j \in FreeSlots : k <= j] = p]

Finish(k) == inflight' = [inflight EXCEPT ![k] = Idle]

-----------------------------------------------------------------------------
(* POST /spots *)

\* validation, then Spot.create and the 201
PostSpot(u, b) ==
    LET errors == ValidateSpot(b) IN
    /\ IF errors # {}
       THEN /\ resp' = Response("POST", 400, u, 0, Some(b), errors, 0)
            /\ UNCHANGED <<spots, nextSpotId>>
       ELSE /\ nextSpotId <= MaxSpotId
            /\ spots' = spots \cup {SpotRow(nextSpotId, u, b)}
            /\ nextSpotId' = nextSpotId + 1
            /\ resp' = Response("POST", 201, u, nextSpotId, Some(b), {}, 0)
    /\ UNCHANGED <<spotImages, reviews, bookings, nextImageId, nextBookingId,
                   fkEnforced, inflight>>

-----------------------------------------------------------------------------
(* PUT /spots/:spotId *)

\* the checks of PUT with the body validated before the owner is compared
PutChecksBodyFirst(found, u, b) ==
    IF found = {} THEN 404
    ELSE IF ValidateSpot(b) # {} THEN 400
    ELSE IF (CHOOSE s \in found : TRUE).ownerId # u THEN 403
    ELSE 0

\* the status the checks of PUT answer with, 0 when they all pass
PutChecks(found, u, b) ==
    IF found = {} THEN 404
    ELSE IF (CHOOSE s \in found : TRUE).ownerId # u THEN 403
    ELSE IF ValidateSpot(b) # {} THEN 400
    ELSE 0

\* Spot.findByPk and the checks that follow it
PutFind(u, sid, b, cap) ==
    LET status == PutChecks(FindByPk(sid), u, b) IN
    /\ IF status # 0
       THEN /\ resp' = Response("PUT", status, u, sid, Some(b),
                                IF status = 400 THEN ValidateSpot(b) ELSE {}, 0)
            /\ UNCHANGED inflight
       ELSE /\ Suspend(Pending("PUT", u, sid, Some(b), "update", 0), cap)
            /\ resp' = NoResp
    /\ UNCHANGED <<store, fkEnforced>>

\* spot.update and the 200: an UPDATE of a row that is gone changes nothing
PutUpdate(k) ==
    LET p == inflight[k] IN
    /\ p.kind = "PUT" /\ p.pc = "update"
    /\ spots' = {IF s.id = p.spotId THEN UpdatedRow(s, Val(p.body)) ELSE s : s \in spots}
    /\ resp' = Response("PUT", 200, p.user, p.spotId, p.body, {}, 0)
    /\ Finish(k)
    /\ UNCHANGED <<spotImages, reviews, bookings, nextSpotId, nextImageId,
                   nextBookingId, fkEnforced>>

-----------------------------------------------------------------------------
(* POST /spots/:spotId/images *)

ImageBodies == {[url |-> "img.png", preview |-> TRUE]}

\* the status the checks of POST image answer with, 0 when they all pass
ImageChecks(found, u) ==
    IF found = {} THEN 404
    ELSE IF (CHOOSE s \in found : TRUE).ownerId # u THEN 403
    ELSE 0

\* Spot.findByPk and the checks that follow it
ImageFind(u, sid, img, cap) ==
    LET status == ImageChecks(FindByPk(sid), u) IN
    /\ IF status # 0
       THEN /\ resp' = Response("IMAGE", status, u, sid, Some(img), {}, 0)
            /\ UNCHANGED inflight
       ELSE /\ Suspend(Pending("IMAGE", u, sid, Some(img), "create", 0), cap)
            /\ resp' = NoResp
    /\ UNCHANGED <<store, fkEnforced>>

\* SpotImage.create and the 201. A store that enforces the reference rejects
\* the insert for a spot that is gone; the handler catches nothing, so the
\* request is never answered (status 0).
ImageCreate(k) ==
    LET p == inflight[k] IN
    /\ p.kind = "IMAGE" /\ p.pc = "create"
    /\ IF fkEnforced /\ FindByPk(p.spotId) = {}
       THEN /\ resp' = Response("IMAGE", 0, p.user, p.spotId, p.body, {}, 0)
            /\ UNCHANGED <<spotImages, nextImageId>>
       ELSE /\ nextImageId <= MaxImageId
            /\ spotImages' = spotImages \cup {ImageRow(nextImageId, p.spotId, Val(p.body))}
            /\ nextImageId' = nextImageId + 1
            /\ resp' = Response("IMAGE", 201, p.user, p.spotId, p.body, {}, 0)
    /\ Finish(k)
    /\ UNCHANGED <<spots, reviews, bookings, nextSpotId, nextBookingId, fkEnforced>>

-----------------------------------------------------------------------------
(* DELETE /spots/:spotId *)

\* the checks of DELETE without the comparison of the owner
DeleteChecksAnyUser(found, u) ==
    IF found = {} THEN 404
    ELSE 0

\* the status the checks of DELETE answer with, 0 when they all pass
DeleteChecks(found, u) ==
    IF found = {} THEN 404
    ELSE IF (CHOOSE s \in found : TRUE).ownerId # u THEN 404
    ELSE 0

\* Spot.findByPk and the checks that follow it
DeleteFind(u, sid, cap) ==
    LET status == DeleteChecks(FindByPk(sid), u) IN
    /\ IF status # 0
       THEN /\ resp' = Response("DELETE", status, u, sid, Undefined, {}, 0)
            /\ UNCHANGED inflight
       ELSE /\ Suspend(Pending("DELETE", u, sid, Undefined, "images", 0), cap)
            /\ resp' = NoResp
    /\ UNCHANGED <<store, fkEnforced>>

Advance(k, pc, n) ==
    inflight' = [inflight EXCEPT ![k].pc = pc, ![k].removed = @ + n]

\* SpotImage.destroy({ where: { spotId } })
DeleteImages(k) ==
    LET p == inflight[k] IN
    /\ p.kind = "DELETE" /\ p.pc = "images"
    /\ spotImages' = DestroyWhere(spotImages, p.spotId)
    /\ Advance(k, "reviews", Cardinality(spotImages \ DestroyWhere(spotImages, p.spotId)))
    /\ resp' = NoResp
    /\ UNCHANGED <<spots, reviews, bookings, nextSpotId, nextImageId, nextBookingId,
                   fkEnforced>>

\* Review.destroy({ where: { spotId } })
DeleteReviews(k) ==
    LET p == inflight[k] IN
    /\ p.kind = "DELETE" /\ p.pc = "reviews"
    /\ reviews' = DestroyWhere(reviews, p.spotId)
    /\ Advance(k, "bookings", Cardinality(reviews \ DestroyWhere(reviews, p.spotId)))
    /\ resp' = NoResp
    /\ UNCHANGED <<spots, spotImages, bookings, nextSpotId, nextImageId, nextBookingId,
                   fkEnforced>>

\* Booking.destroy({ where: { spotId } })
DeleteBookings(k) ==
    LET p == inflight[k] IN
    /\ p.kind = "DELETE" /\ p.pc = "bookings"
    /\ bookings' = DestroyWhere(bookings, p.spotId)
    /\ Advance(k, "spot", Cardinality(bookings \ DestroyWhere(bookings, p.spotId)))
    /\ resp' = NoResp
    /\ UNCHANGED <<spots, spotImages, reviews, nextSpotId, nextImageId, nextBookingId,
                   fkEnforced>>

\* spot.destroy() and the 200. A store that enforces the reference rejects
\* the delete while a child row still names the spot: the catch answers 500.
DeleteSpot(k) ==
    LET p == inflight[k] IN
    /\ p.kind = "DELETE" /\ p.pc = "spot"
    /\ IF fkEnforced /\ ChildrenOf(p.spotId) # {}
       THEN /\ resp' = Response("DELETE", 500, p.user, p.spotId, Undefined, {}, p.removed)
            /\ UNCHANGED spots
       ELSE /\ spots' = {s \in spots : s.id # p.spotId}
            /\ resp' = Response("DELETE", 200, p.user, p.spotId, Undefined, {}, p.removed)
    /\ Finish(k)
    /\ UNCHANGED <<spotImages, reviews, bookings, nextSpotId, nextImageId,
                   nextBookingId, fkEnforced>>

\* one of the four destroy calls throws: the catch answers 500 and the rows
\* destroyed so far stay destroyed
DeleteThrows(k) ==
    LET p == inflight[k] IN
    /\ p.kind = "DELETE" /\ p.pc \in {"images", "reviews", "bookings", "spot"}
    /\ resp' = Response("DELETE", 500, p.user, p.spotId, Undefined, {}, p.removed)
    /\ Finish(k)
    /\ UNCHANGED <<store, fkEnforced>>

-----------------------------------------------------------------------------
(* The store the router starts on: the spot of user 1, reviewed and booked *)
(* by user 2                                                                *)

SeedSpots == {SpotRow(1, 1, ValidBodyA)}

SeedReviews == {[id |-> 1, spotId |-> 1, userId |-> 2, stars |-> 4]}

SeedBookings == {[id |-> 1, spotId |-> 1, userId |-> 2, startDate |-> 1, endDate |-> 3]}

\* Run one request at a time, no handler tests the reference: every child row
\* of a spot is destroyed by the DELETE that then destroys the spot.
Init ==
    /\ spots = SeedSpots
    /\ spotImages = {}
    /\ reviews = SeedReviews
    /\ bookings = SeedBookings
    /\ nextSpotId = 2
    /\ nextImageId = 1
    /\ nextBookingId = 2
    /\ fkEnforced = FALSE
    /\ inflight = [k \in Slots |-> Idle]
    /\ resp = NoResp

\* No source file says whether the tables were created with the reference
\* the Booking model declares: both stores are possible.
InitAnyStore ==
    /\ spots = SeedSpots
    /\ spotImages = {}
    /\ reviews = SeedReviews
    /\ bookings = SeedBookings
    /\ nextSpotId = 2
    /\ nextImageId = 1
    /\ nextBookingId = 2
    /\ fkEnforced \in BOOLEAN
    /\ inflight = [k \in Slots |-> Idle]
    /\ resp = NoResp

\* spot ids a request may name: those in use and the next, unused one
SpotIds == 1..MaxSpotId

\* new spots are listed by the user who does not own the first one
Hosts == {2}

(* Spot writes, one request at a time *)
Next ==
    \/ \E u \in Hosts, b \in Bodies : PostSpot(u, b)
    \/ \E u \in Users, sid \in SpotIds, b \in Bodies : PutFind(u, sid, b, 1)
    \/ \E k \in Slots : PutUpdate(k)

Spec == Init /\ [][Next]_vars

AuthBodies == ValidBodies \cup {[ValidBodyA EXCEPT !.price = Some(PriceFloor)]}

(* The three owner-only handlers, one request at a time *)
NextAuth ==
    \/ \E u \in Users, sid \in SpotIds, b \in AuthBodies : PutFind(u, sid, b, 1)
    \/ \E k \in Slots : PutUpdate(k)
    \/ \E u \in Users, sid \in SpotIds, img \in ImageBodies : ImageFind(u, sid, img, 1)
    \/ \E k \in Slots : ImageCreate(k)
    \/ \E u \in Users, sid \in SpotIds : DeleteFind(u, sid, 1)
    \/ \E k \in Slots : DeleteImages(k)
    \/ \E k \in Slots : DeleteReviews(k)
    \/ \E k \in Slots : DeleteBookings(k)
    \/ \E k \in Slots : DeleteSpot(k)
    \/ \E k \in Slots : DeleteThrows(k)

SpecAuth == InitAnyStore /\ [][NextAuth]_vars

(* Image upload and delete with their store calls interleaved *)
NextRace ==
    \/ \E u \in Users, sid \in SpotIds, img \in ImageBodies : ImageFind(u, sid, img, MaxInflight)
    \/ \E k \in Slots : ImageCreate(k)
    \/ \E u \in Users, sid \in SpotIds : DeleteFind(u, sid, MaxInflight)
    \/ \E k \in Slots : DeleteImages(k)
    \/ \E k \in Slots : DeleteReviews(k)
    \/ \E k \in Slots : DeleteBookings(k)
    \/ \E k \in Slots : DeleteSpot(k)
    \/ \E k \in Slots : DeleteThrows(k)

SpecRace == InitAnyStore /\ [][NextRace]_vars

-----------------------------------------------------------------------------
(* The read side: ratings and preview images *)

MaxReviews == 3
MaxStars == 5

\* a JSON number p/q in lowest terms, a string of a number with one decimal
\* (p tenths), or null
Num(p, q) == [t |-> "num", p |-> p, q |-> q]
Str1(tenths) == [t |-> "str", p |-> tenths, q |-> 10]
Null == [t |-> "null", p |-> 0, q |-> 1]

RECURSIVE Gcd(_, _)
Gcd(a, b) == IF b = 0 THEN a ELSE Gcd(b, a % b)

RECURSIVE SumStars(_)
SumStars(rows) ==
    IF rows = {} THEN 0
    ELSE LET r == CHOOSE x \in rows : TRUE IN r.stars + SumStars(rows \ {r})

ReviewsOf(sid) == {r \in reviews : r.spotId = sid}

\* SELECT AVG(stars) FROM Reviews WHERE spotId = sid: one row, whose value is
\* null when no row matches
AvgStars(sid) ==
    LET rows == ReviewsOf(sid)
        n == Cardinality(rows)
        g == Gcd(SumStars(rows), n) IN
    IF n = 0 THEN Null ELSE Num(SumStars(rows) \div g, n \div g)

\* x || null for a number that may be null
OrNull(x) == IF x.t = "null" \/ (x.t = "num" /\ x.p = 0) THEN Null ELSE x

\* parseFloat(x).toFixed(1): the nearest number of tenths, the larger of two
\* equally near ones
ToFixed1(x) == Str1((20 * x.p + x.q) \div (2 * x.q))

\* the rows of a set in primary-key order
RECURSIVE ById(_)
ById(rows) ==
    IF rows = {} THEN <<>>
    ELSE LET r == CHOOSE x \in rows : \A y \in rows : x.id <= y.id
         IN <<r>> \o ById(rows \ {r})

\* include SpotImage where preview = true; SpotImages.length ? [0].url : null
PreviewImage(sid) ==
    LET imgs == ById({i \in spotImages : i.spotId = sid /\ i.preview}) IN
    IF Len(imgs) # 0 THEN Some(imgs[1].url) ELSE Undefined

\* what a read handler answered, with the request it answers
ReadResponse(kind, status, u, sid, query, errors, data) ==
    [kind |-> kind, status |-> status, user |-> u, spotId |-> sid, query |-> query,
     errors |-> errors, data |-> data]

(* GET /spots/current *)

\* the attributes the query of GET /spots/current selects
CurrentAttributes ==
    {"id", "ownerId", "address", "city", "state", "country", "lat", "lng", "name",
     "description", "price", "createdAt", "updatedAt"}

\* spot.dataValues.avgRating: undefined unless the query selected it
DataValuesAvgRating(s) == IF "avgRating" \in CurrentAttributes THEN AvgStars(s.id) ELSE Null

CurrentEntry(s) ==
    [spot |-> s, avgRating |-> OrNull(DataValuesAvgRating(s)),
     previewImage |-> PreviewImage(s.id)]

GetCurrent(u) ==
    /\ resp' = ReadResponse("CURRENT", 200, u, 0, Undefined, {},
                            [i \in 1..Len(ById({s \in spots : s.ownerId = u})) |->
                                CurrentEntry(ById({s \in spots : s.ownerId = u})[i])])
    /\ UNCHANGED <<store, fkEnforced, inflight>>

(* GET /spots/:spotId *)

\* the answer's avgStarRating: the handler computes the rounded string
\* (line 137) and answers with the query's value (line 154)
DetailRating(sid) ==
    LET avgRating == AvgStars(sid)
        avgStarRating == IF OrNull(avgRating) # Null THEN ToFixed1(avgRating) ELSE Null
    IN OrNull(avgRating)

\* param: the :spotId segment as a number, Undefined when it is not one
GetSpot(param) ==
    /\ resp' =
         IF param = Undefined
         THEN ReadResponse("DETAIL", 400, 0, 0, Undefined, {}, <<>>)
         ELSE IF FindByPk(Val(param)) = {}
         THEN ReadResponse("DETAIL", 404, 0, Val(param), Undefined, {}, <<>>)
         ELSE LET s == CHOOSE x \in FindByPk(Val(param)) : TRUE IN
              ReadResponse("DETAIL", 200, 0, s.id, Undefined, {},
                  <<[spot |-> s,
                     numReviews |-> Cardinality(ReviewsOf(s.id)),
                     avgStarRating |-> DetailRating(s.id),
                     SpotImages |-> ById({i \in spotImages : i.spotId = s.id}),
                     Owner |-> s.ownerId]>>)
    /\ UNCHANGED <<store, fkEnforced, inflight>>

(* GET /spots *)

\* parseInt of a parameter that is absent or an integer's digits: NaN when absent
ParseInt(o) == o

\* x || d for a number that may be NaN: NaN and 0 are falsy
OrDefault(x, d) == IF x = Undefined \/ x = Some(0) THEN d ELSE Val(x)

NoFilters ==
    [minLat |-> Undefined, maxLat |-> Undefined, minLng |-> Undefined,
     maxLng |-> Undefined, minPrice |-> Undefined, maxPrice |-> Undefined]

Query(page, size, f) ==
    [page |-> page, size |-> size, minLat |-> f.minLat, maxLat |-> f.maxLat,
     minLng |-> f.minLng, maxLng |-> f.maxLng, minPrice |-> f.minPrice,
     maxPrice |-> f.maxPrice]

\* a bound that is present and out of [lo, hi]
OutOfRange(o, lo, hi) == o # Undefined /\ (Val(o) < lo \/ Val(o) > hi)

\* a price bound that is present and negative
Negative(o) == o # Undefined /\ Val(o) < PriceFloor

\* the field the 400 of GET /spots names, "" when every check passes
ListError(q) ==
    LET page == OrDefault(ParseInt(q.page), DefaultPage)
        size == OrDefault(ParseInt(q.size), DefaultSize) IN
    IF page < PageMin THEN "page"
    ELSE IF size < SizeMin \/ size > SizeMax THEN "size"
    ELSE IF OutOfRange(q.minLat, LatMin, LatMax) THEN "minLat"
    ELSE IF OutOfRange(q.maxLat, LatMin, LatMax) THEN "maxLat"
    ELSE IF OutOfRange(q.minLng, LngMin, LngMax) THEN "minLng"
    ELSE IF OutOfRange(q.maxLng, LngMin, LngMax) THEN "maxLng"
    ELSE IF Negative(q.minPrice) THEN "minPrice"
    ELSE IF Negative(q.maxPrice) THEN "maxPrice"
    ELSE ""

AtLeast(x, o) == o = Undefined \/ x >= Val(o)
AtMost(x, o) == o = Undefined \/ x <= Val(o)

\* the where object
Matches(s, q) ==
    /\ AtLeast(s.lat, q.minLat) /\ AtMost(s.lat, q.maxLat)
    /\ AtLeast(s.lng, q.minLng) /\ AtMost(s.lng, q.maxLng)
    /\ AtLeast(s.price, q.minPrice) /\ AtMost(s.price, q.maxPrice)

\* limit: size, offset: (page - 1) * size
PageOf(rows, page, size) ==
    LET first == (page - 1) * size + 1
        last == IF page * size < Len(rows) THEN page * size ELSE Len(rows)
    IN IF first > last THEN <<>> ELSE SubSeq(rows, first, last)

\* avgRating ? avgRating.avgRating : null, for the row the AVG query returns
ListEntry(s) ==
    [spot |-> s, avgRating |-> AvgStars(s.id), previewImage |-> PreviewImage(s.id)]

GetSpots(q) ==
    LET page == OrDefault(ParseInt(q.page), DefaultPage)
        size == OrDefault(ParseInt(q.size), DefaultSize)
        rows == PageOf(ById({s \in spots : Matches(s, q)}), page, size) IN
    /\ resp' =
         IF ListError(q) # ""
         THEN ReadResponse("LIST", 400, 0, 0, Some(q), {ListError(q)}, <<>>)
         ELSE ReadResponse("LIST", 200, 0, 0, Some(q), {},
                  <<[Spots |-> [i \in 1..Len(rows) |-> ListEntry(rows[i])],
                     page |-> page, size |-> size]>>)
    /\ UNCHANGED <<store, fkEnforced, inflight>>

\* the queries the model asks: every page with every size and no filter, and
\* each filter alone, and two pairs of them
Pages == {Undefined, Some(-1), Some(0), Some(1), Some(2)}
Sizes == {Undefined, Some(-1), Some(0), Some(1), Some(2), Some(SizeMax), Some(SizeMax + 1),
          Some(SizeMax + 5)}

Filters ==
    {NoFilters}
    \cup {[NoFilters EXCEPT !.minLat = v] : v \in {Some(LatMin - 1), Some(0), Some(LatMax + 10)}}
    \cup {[NoFilters EXCEPT !.maxLat = v] : v \in {Some(LatMin - 1), Some(0), Some(LatMax + 1)}}
    \cup {[NoFilters EXCEPT !.minLng = v] : v \in {Some(LngMin - 1), Some(0), Some(LngMax + 1)}}
    \cup {[NoFilters EXCEPT !.maxLng = v] : v \in {Some(LngMin - 1), Some(0), Some(LngMax + 1)}}
    \cup {[NoFilters EXCEPT !.minPrice = v] : v \in {Some(-1), Some(0), Some(2)}}
    \cup {[NoFilters EXCEPT !.maxPrice = v] : v \in {Some(-1), Some(0), Some(1)}}
    \cup {[NoFilters EXCEPT !.minLat = Some(0), !.maxLat = Some(LatMax)],
          [NoFilters EXCEPT !.minPrice = Some(1), !.maxPrice = Some(1)]}

Queries ==
    {Query(pg, sz, NoFilters) : pg \in Pages, sz \in Sizes}
    \cup {Query(Undefined, Undefined, f) : f \in Filters}

\* the stores the read side is asked on: two spots of two owners, the first
\* with a plain and a preview image, and every table of at most MaxReviews
\* reviews of 1..MaxStars stars, the first k of them of the first spot
ReadSpots == {SpotRow(1, 1, ValidBodyA), SpotRow(2, 2, ValidBodyB)}

ReadImages ==
    {[id |-> 1, spotId |-> 1, url |-> "plain.png", preview |-> FALSE],
     [id |-> 2, spotId |-> 1, url |-> "preview.png", preview |-> TRUE]}

ReviewTables ==
    UNION {{{[id |-> i, spotId |-> IF i <= k THEN 1 ELSE 2, userId |-> 2 + i,
              stars |-> st[i]] : i \in 1..n} :
              k \in 0..n, st \in [1..n -> 1..MaxStars]} : n \in 0..MaxReviews}

InitRead ==
    /\ spots = ReadSpots
    /\ spotImages = ReadImages
    /\ reviews \in ReviewTables
    /\ bookings = {}
    /\ nextSpotId = 3
    /\ nextImageId = 3
    /\ nextBookingId = 1
    /\ fkEnforced = FALSE
    /\ inflight = [k \in Slots |-> Idle]
    /\ resp = NoResp

NextRead ==
    \/ \E q \in Queries : GetSpots(q)
    \/ \E u \in Users : GetCurrent(u)
    \/ \E param \in {Undefined} \cup {Some(sid) : sid \in 1..3} : GetSpot(param)

SpecRead == InitRead /\ [][NextRead]_vars

-----------------------------------------------------------------------------
(* Bookings: the router mounted at /:spotId/bookings (routes/api/bookings.js) *)
(* over the Booking model. The conflict check and the write that follows it    *)
(* are one unit against the store.                                             *)

MaxDate == 3
MaxBookingId == 2

\* a row of the Bookings table: the four attributes of the model, none null
BookingRow(id, sid, u, s, e) ==
    [id |-> id, spotId |-> sid, userId |-> u, startDate |-> s, endDate |-> e]

\* [s1, e1) and [s2, e2) share a day
Overlaps(s1, e1, s2, e2) == s1 < e2 /\ s2 < e1

\* the bookings of a spot that hold the first day of [s, e)
ConflictsAtStart(rows, sid, s, e) ==
    {b \in rows : b.spotId = sid /\ b.startDate <= s /\ s < b.endDate}

\* the bookings of a spot that [s, e) overlaps
Conflicts(rows, sid, s, e) ==
    {b \in rows : b.spotId = sid /\ Overlaps(s, e, b.startDate, b.endDate)}

\* which boundary of [s, e) conflicts: the one that falls inside a booking,
\* both when neither does
ConflictFields(cs, s, e) ==
    LET start == {"startDate" : b \in {c \in cs : c.startDate <= s /\ s < c.endDate}}
        end == {"endDate" : b \in {c \in cs : c.startDate < e /\ e <= c.endDate}}
    IN IF start \cup end = {} THEN {"startDate", "endDate"} ELSE start \cup end

\* missing dates, or an end that is not after the start
BadDates(s, e) == s = Undefined \/ e = Undefined \/ Val(e) <= Val(s)

Dates(s, e) == [startDate |-> s, endDate |-> e]

\* POST /spots/:spotId/bookings
CreateBooking(u, sid, s, e) ==
    LET cs == Conflicts(bookings, sid, Val(s), Val(e)) IN
    /\ IF FindByPk(sid) = {}
       THEN /\ resp' = Response("BOOK", 404, u, sid, Some(Dates(s, e)), {}, 0)
            /\ UNCHANGED <<bookings, nextBookingId>>
       ELSE IF BadDates(s, e)
       THEN /\ resp' = Response("BOOK", 400, u, sid, Some(Dates(s, e)), {"endDate"}, 0)
            /\ UNCHANGED <<bookings, nextBookingId>>
       ELSE IF cs # {}
       THEN /\ resp' = Response("BOOK", 403, u, sid, Some(Dates(s, e)),
                                ConflictFields(cs, Val(s), Val(e)), 0)
            /\ UNCHANGED <<bookings, nextBookingId>>
       ELSE /\ nextBookingId <= MaxBookingId
            /\ bookings' = bookings \cup {BookingRow(nextBookingId, sid, u, Val(s), Val(e))}
            /\ nextBookingId' = nextBookingId + 1
            /\ resp' = Response("BOOK", 201, u, sid, Some(Dates(s, e)), {}, 0)
    /\ UNCHANGED <<spots, spotImages, reviews, nextSpotId, nextImageId, fkEnforced, inflight>>

\* PUT /bookings/:bookingId: the booking's own row is left out of the scan
UpdateBooking(u, bid, s, e) ==
    LET found == {b \in bookings : b.id = bid}
        old == CHOOSE b \in found : TRUE
        cs == Conflicts(bookings \ found, old.spotId, Val(s), Val(e)) IN
    /\ IF found = {}
       THEN /\ resp' = Response("REBOOK", 404, u, bid, Some(Dates(s, e)), {}, 0)
            /\ UNCHANGED bookings
       ELSE IF old.userId # u
       THEN /\ resp' = Response("REBOOK", 403, u, bid, Some(Dates(s, e)), {}, 0)
            /\ UNCHANGED bookings
       ELSE IF BadDates(s, e)
       THEN /\ resp' = Response("REBOOK", 400, u, bid, Some(Dates(s, e)), {"endDate"}, 0)
            /\ UNCHANGED bookings
       ELSE IF cs # {}
       THEN /\ resp' = Response("REBOOK", 403, u, bid, Some(Dates(s, e)),
                                ConflictFields(cs, Val(s), Val(e)), 0)
            /\ UNCHANGED bookings
       ELSE /\ bookings' = (bookings \ found)
                             \cup {BookingRow(bid, old.spotId, old.userId, Val(s), Val(e))}
            /\ resp' = Response("REBOOK", 200, u, bid, Some(Dates(s, e)), {}, 0)
    /\ UNCHANGED <<spots, spotImages, reviews, nextSpotId, nextImageId, nextBookingId,
                   fkEnforced, inflight>>

\* DELETE /bookings/:bookingId
DeleteBooking(u, bid) ==
    LET found == {b \in bookings : b.id = bid} IN
    /\ IF found = {}
       THEN /\ resp' = Response("UNBOOK", 404, u, bid, Undefined, {}, 0)
            /\ UNCHANGED bookings
       ELSE IF (CHOOSE b \in found : TRUE).userId # u
       THEN /\ resp' = Response("UNBOOK", 403, u, bid, Undefined, {}, 0)
            /\ UNCHANGED bookings
       ELSE /\ bookings' = bookings \ found
            /\ resp' = Response("UNBOOK", 200, u, bid, Undefined, {}, 0)
    /\ UNCHANGED <<spots, spotImages, reviews, nextSpotId, nextImageId, nextBookingId,
                   fkEnforced, inflight>>

BookSpots == {SpotRow(1, 1, ValidBodyA), SpotRow(2, 1, ValidBodyB)}

InitBook ==
    /\ spots = BookSpots
    /\ spotImages = {}
    /\ reviews = {}
    /\ bookings = {}
    /\ nextSpotId = 3
    /\ nextImageId = 1
    /\ nextBookingId = 1
    /\ fkEnforced = FALSE
    /\ inflight = [k \in Slots |-> Idle]
    /\ resp = NoResp

\* the dates a request may carry: every range of days, the ranges a handler
\* refuses as dates, and a missing start or end
DateInputs ==
    {Dates(Some(s), Some(e)) : s \in 1..MaxDate, e \in 2..MaxDate}
    \cup {Dates(Undefined, Some(2)), Dates(Some(1), Undefined)}

\* bookings are made by the user who owns no booked spot
Guests == {2}

NextBook ==
    \/ \E u \in Guests, sid \in 1..3, d \in DateInputs :
          CreateBooking(u, sid, d.startDate, d.endDate)
    \/ \E u \in Guests, bid \in 1..MaxBookingId, d \in DateInputs :
          UpdateBooking(u, bid, d.startDate, d.endDate)
    \/ \E u \in Users \ Guests, bid \in 1..MaxBookingId :
          UpdateBooking(u, bid, Some(1), Some(2))
    \/ \E u \in Users, bid \in 1..MaxBookingId : DeleteBooking(u, bid)

SpecBook == InitBook /\ [][NextBook]_vars

-----------------------------------------------------------------------------
(* Properties *)

OwnerOf(sid) == (CHOOSE s \in spots : s.id = sid).ownerId

\* a handler that was not suspended before the step and is after it
Suspended(k) == inflight[k] = Idle /\ inflight'[k] # Idle

\* a body that fails a field validation, as the interface lists them
Defective(b) ==
    \/ FalsyStr(b.address) \/ FalsyStr(b.city) \/ FalsyStr(b.state)
    \/ FalsyStr(b.country) \/ FalsyStr(b.description)
    \/ b.lat = Undefined \/ Val(b.lat) < -90 \/ Val(b.lat) > 90
    \/ b.lng = Undefined \/ Val(b.lng) < -180 \/ Val(b.lng) > 180
    \/ b.name = Undefined \/ Len(Val(b.name)) = 0 \/ Len(Val(b.name)) > 50
    \/ b.price = Undefined \/ Val(b.price) <= 0

\* C1: a PUT, a POST image or a DELETE on an existing spot by a user who is
\* not its owner is answered 403, 403 and 404, and the step that answers
\* changes no table; only the owner's request goes on to a write.
C1Step ==
    /\ (/\ resp'.kind \in {"PUT", "IMAGE", "DELETE"}
        /\ FindByPk(resp'.spotId) # {}
        /\ OwnerOf(resp'.spotId) # resp'.user)
       => /\ resp'.status = IF resp'.kind = "DELETE" THEN 404 ELSE 403
          /\ UNCHANGED store
    /\ \A k \in Slots :
          Suspended(k) => /\ FindByPk(inflight'[k].spotId) # {}
                          /\ OwnerOf(inflight'[k].spotId) = inflight'[k].user

C1_NonOwnerRejected == [][C1Step]_vars

C1_Witness ==
    /\ resp.kind = "DELETE" /\ resp.status = 404
    /\ FindByPk(resp.spotId) # {}
    /\ OwnerOf(resp.spotId) # resp.user
    /\ ChildrenOf(resp.spotId) # {}

\* C6, as stated: a POST /spots or PUT /spots/:spotId whose body fails a
\* field validation is answered 400 and writes nothing.
C6Original ==
    (resp'.kind \in {"POST", "PUT"} /\ Defective(Val(resp'.body)))
       => resp'.status = 400 /\ UNCHANGED store

C6_InvalidBodyAnswered400 == [][C6Original]_vars

\* C6, amended: such a request writes nothing and is never suspended for a
\* write; a POST is answered 400, a PUT is answered 404 when the spot is
\* absent, 403 when the requester does not own it and 400 otherwise.
C6Step ==
    /\ (resp'.kind \in {"POST", "PUT"} /\ Defective(Val(resp'.body)))
       => /\ resp'.status =
                IF resp'.kind = "POST" THEN 400
                ELSE IF FindByPk(resp'.spotId) = {} THEN 404
                ELSE IF OwnerOf(resp'.spotId) # resp'.user THEN 403
                ELSE 400
          /\ UNCHANGED store
    /\ \A k \in Slots : Suspended(k) => ~Defective(Val(inflight'[k].body))

C6_InvalidBodyWritesNothing == [][C6Step]_vars

C6_Witness ==
    /\ resp.kind = "PUT" /\ resp.status = 400
    /\ Defective(Val(resp.body))
    /\ FindByPk(resp.spotId) # {}
    /\ OwnerOf(resp.spotId) = resp.user

\* C10: PUT checks existence, then ownership, then the body: an absent spot
\* is answered 404 whoever asks and whatever the body, another user's spot
\* 403 even with an invalid body, and 400 goes only to the owner; a request
\* goes on to the update only when all three checks pass.
C10Step ==
    /\ (resp'.kind = "PUT" /\ resp'.status # 200)
       => resp'.status =
             IF FindByPk(resp'.spotId) = {} THEN 404
             ELSE IF OwnerOf(resp'.spotId) # resp'.user THEN 403
             ELSE 400
    /\ (resp'.kind = "PUT" /\ resp'.status = 400) => Defective(Val(resp'.body))
    /\ \A k \in Slots :
          (Suspended(k) /\ inflight'[k].kind = "PUT")
             => /\ FindByPk(inflight'[k].spotId) # {}
                /\ OwnerOf(inflight'[k].spotId) = inflight'[k].user
                /\ ~Defective(Val(inflight'[k].body))

C10_PutCheckOrder == [][C10Step]_vars

C10_Witness ==
    /\ resp.kind = "PUT" /\ resp.status = 403
    /\ Defective(Val(resp.body))
    /\ FindByPk(resp.spotId) # {}

\* C3: when the owner's DELETE answers 200 the spot is gone, no SpotImage,
\* Review or Booking row references it, and the rows of other spots are as
\* they were before the step.
C3Step ==
    (resp'.kind = "DELETE" /\ resp'.status = 200)
       => /\ \A s \in spots' : s.id # resp'.spotId
          /\ \A r \in spotImages' \cup reviews' \cup bookings' : r.spotId # resp'.spotId
          /\ {s \in spots' : s.id # resp'.spotId} = {s \in spots : s.id # resp'.spotId}
          /\ {r \in reviews' : r.spotId # resp'.spotId}
                = {r \in reviews : r.spotId # resp'.spotId}
          /\ {r \in bookings' : r.spotId # resp'.spotId}
                = {r \in bookings : r.spotId # resp'.spotId}
          /\ {r \in spotImages' : r.spotId # resp'.spotId}
                = {r \in spotImages : r.spotId # resp'.spotId}

C3_DeleteCascades == [][C3Step]_vars

\* C8: a DELETE that answers 500 removed the spot with all its child rows or
\* removed nothing: it never leaves the spot with part of its rows destroyed.
C8Step ==
    (resp'.kind = "DELETE" /\ resp'.status = 500)
       => \/ resp'.removed = 0
          \/ /\ \A s \in spots' : s.id # resp'.spotId
             /\ \A r \in spotImages' \cup reviews' \cup bookings' : r.spotId # resp'.spotId

C8_CascadeAtomic == [][C8Step]_vars

\* C9: whatever the interleaving of POST /spots/:spotId/images and
\* DELETE /spots/:spotId, every SpotImage row references a spot that exists.
C9_ImagesReferenceSpots == \A i \in spotImages : FindByPk(i.spotId) # {}

\* C4: GET /spots answers 400 to a page below 1, page = 0 included, and to a
\* size outside 1..20, size = 0 and size = 25 included; the defaults 1 and 20
\* stand in only for a parameter that is absent.
C4_PageAndSizeChecked ==
    resp.kind = "LIST" =>
       LET q == Val(resp.query) IN
       /\ (q.page # Undefined /\ Val(q.page) < 1) => resp.status = 400
       /\ (q.size # Undefined /\ (Val(q.size) < 1 \/ Val(q.size) > 20))
             => resp.status = 400
       /\ resp.status = 200
             => /\ resp.data[1].page = IF q.page = Undefined THEN 1 ELSE Val(q.page)
                /\ resp.data[1].size = IF q.size = Undefined THEN 20 ELSE Val(q.size)

\* C5: on GET /spots, GET /spots/current and GET /spots/:spotId the rating of
\* a spot is null exactly when the spot has no review.
C5_RatingNullIffNoReviews ==
    /\ (resp.kind \in {"LIST", "CURRENT"} /\ resp.status = 200)
          => LET entries == IF resp.kind = "LIST" THEN resp.data[1].Spots ELSE resp.data IN
             \A i \in 1..Len(entries) :
                (entries[i].avgRating = Null) <=> (ReviewsOf(entries[i].spot.id) = {})
    /\ (resp.kind = "DETAIL" /\ resp.status = 200)
          => ((resp.data[1].avgStarRating = Null) <=> (ReviewsOf(resp.spotId) = {}))

\* the mean of a spot's stars in tenths, rounded to the nearest, halves upward
Tenths(sid) ==
    LET n == Cardinality(ReviewsOf(sid))
        sum == SumStars(ReviewsOf(sid))
    IN (20 * sum + n) \div (2 * n)

\* C7: GET /spots/:spotId answers the mean rounded to one decimal place, as
\* in "4.0" (the value answered is that number of tenths, however it is
\* written), and GET /spots answers the mean unrounded.
C7_DetailRoundsListDoesNot ==
    /\ (resp.kind = "DETAIL" /\ resp.status = 200 /\ ReviewsOf(resp.spotId) # {})
          => /\ resp.data[1].avgStarRating # Null
             /\ 10 * resp.data[1].avgStarRating.p
                   = Tenths(resp.spotId) * resp.data[1].avgStarRating.q
    /\ (resp.kind = "LIST" /\ resp.status = 200)
          => \A i \in 1..Len(resp.data[1].Spots) :
                LET e == resp.data[1].Spots[i] IN
                ReviewsOf(e.spot.id) # {}
                   => /\ e.avgRating # Null
                      /\ e.avgRating.p * Cardinality(ReviewsOf(e.spot.id))
                            = e.avgRating.q * SumStars(ReviewsOf(e.spot.id))

\* two bookings of one spot whose half-open ranges share a day
DoubleBooked(rows) ==
    \E a, b \in rows :
       /\ a.id # b.id /\ a.spotId = b.spotId
       /\ a.startDate < b.endDate /\ b.startDate < a.endDate

\* C2: no two bookings of a spot overlap; a request for an existing spot
\* with a range that overlaps a booking of that spot is answered 403 with
\* the conflicting boundary named and writes nothing, and a range that
\* overlaps none is booked, so of two overlapping requests exactly one is.
C2Step ==
    /\ ~DoubleBooked(bookings')
    /\ (/\ resp'.kind = "BOOK" /\ FindByPk(resp'.spotId) # {}
        /\ Val(resp'.body).startDate # Undefined /\ Val(resp'.body).endDate # Undefined
        /\ Val(Val(resp'.body).startDate) < Val(Val(resp'.body).endDate))
       => LET s == Val(Val(resp'.body).startDate)
              e == Val(Val(resp'.body).endDate)
              taken == \E b \in bookings :
                          /\ b.spotId = resp'.spotId
                          /\ s < b.endDate /\ b.startDate < e
          IN IF taken
             THEN /\ resp'.status = 403 /\ resp'.errors # {}
                  /\ resp'.errors \subseteq {"startDate", "endDate"}
                  /\ UNCHANGED bookings
             ELSE /\ resp'.status = 201
                  /\ \E b \in bookings' \ bookings :
                        /\ b.spotId = resp'.spotId /\ b.startDate = s /\ b.endDate = e
                        /\ bookings' = bookings \cup {b}

C2_NoDoubleBooking == [][C2Step]_vars

C2_Witness ==
    /\ resp.kind = "BOOK" /\ resp.status = 403 /\ resp.errors # {}
    /\ \E a, b \in bookings : a.id # b.id /\ a.spotId = b.spotId /\ a.endDate = b.startDate

=============================================================================
